---- MODULE Spec2Model ----
(***************************************************************************)
(* Model of src/main.rs: the terminal session (setup_terminal /            *)
(* cleanup_terminal), the input capture thread and the render loop of      *)
(* run_game.  The main thread and the capture thread interleave; every     *)
(* fallible terminal or stdin operation either succeeds or fails.          *)
(***************************************************************************)
EXTENDS Integers, Sequences, FiniteSets, TLC

\* ---------------------------------------------------------------- bounds
\* keystrokes the typist delivers in one run of the main specification
MaxKeys == 3
\* keystrokes the typist delivers in one run of the batch specification
MaxBatch == 6
\* keystrokes the typist delivers in one run of the fair specification
MaxFair == 2
\* keystrokes the typist delivers after the walk of the walk specification
MaxWalk == 2

\* --------------------------------------------------------- environment
\* 'x' stands for every byte that is not one of w, a, s, d, q
Keys == {"w", "a", "s", "d", "q", "x"}
\* the keys of the batch specification: one direction and quit
BatchKeys == {"d", "q"}
\* the keys of the fair specification
FairKeys == {"d", "x", "q"}
\* viewport sizes (width, height) terminal::size() may report
Viewports == {<<10, 5>>, <<3, 2>>, <<1, 0>>}

VARIABLES
    mpc,            \* position of the main thread
    result,         \* what run_game returned: "none", "Ok" or "Err"
    altScreen,      \* terminal: alternate screen entered
    rawMode,        \* terminal: raw mode enabled
    cursorHidden,   \* terminal: cursor hidden
    cpc,            \* position of the capture thread
    buf,            \* the byte the capture thread has read
    chan,           \* the channel's queue
    rxAlive,        \* ctrls_receiver exists (run_game has not returned)
    player_x,
    player_y,
    term_width,     \* viewport read in the current frame
    term_height,
    outbuf,         \* terminal operations queued on stdout, not yet flushed
    stdin,          \* for each byte stdin will still deliver, the keys
                    \* it may be
    sent,           \* history: every character sent on the channel
    recvd,          \* history: every character the render loop dequeued
    batch,          \* history: the characters dequeued in the current frame
    start_x,        \* history: player position when the current frame began
    start_y

vars == <<mpc, result, altScreen, rawMode, cursorHidden, cpc, buf, chan,
          rxAlive, player_x, player_y, term_width, term_height, outbuf,
          stdin, sent, recvd, batch, start_x, start_y>>

termVars == <<altScreen, rawMode, cursorHidden>>
captureVars == <<cpc, buf, stdin, sent>>
worldVars == <<player_x, player_y>>
frameVars == <<term_width, term_height>>
histVars == <<recvd, batch, start_x, start_y>>

\* ------------------------------------------------------- pure functions
I32Max == 2147483647
I32Min == (-I32Max) - 1

\* i32 += 1 and -= 1 (two's complement wrap at the ends of the range)
Inc32(v) == IF v = I32Max THEN I32Min ELSE v + 1
Dec32(v) == IF v = I32Min THEN I32Max ELSE v - 1

U16Range == 65536
\* `v as u16` of an i32
AsU16(v) == v % U16Range

\* variant: the position saturates at hard-wired bounds while events are
\* applied
ApplyX_Saturating(ctrl, x) ==
    CASE ctrl = "a" -> IF x <= 0 THEN x ELSE Dec32(x)
      [] ctrl = "d" -> IF x >= 4 THEN x ELSE Inc32(x)
      [] OTHER -> x

\* the match of the drain loop, on x
ApplyX(ctrl, x) ==
    CASE ctrl = "a" -> Dec32(x)
      [] ctrl = "d" -> Inc32(x)
      [] OTHER -> x

\* variant: one more character is bound to a move
ApplyY_ExtraKey(ctrl, y) ==
    CASE ctrl = "w" -> Dec32(y)
      [] ctrl \in {"s", "x"} -> Inc32(y)
      [] OTHER -> y

\* the match of the drain loop, on y
ApplyY(ctrl, y) ==
    CASE ctrl = "w" -> Dec32(y)
      [] ctrl = "s" -> Inc32(y)
      [] OTHER -> y

\* variant: > where the code has >=
Clamp_OffByOne(v, bound) ==
    LET lo == IF v < 0 THEN 0 ELSE v
    IN  IF lo > bound THEN bound - 1 ELSE lo

\* the two ifs that keep one coordinate in the terminal
Clamp(v, bound) ==
    LET lo == IF v < 0 THEN 0 ELSE v
    IN  IF lo >= bound THEN bound - 1 ELSE lo

\* variant: the world is as wide as the terminal
world_width_NoHalf(tw) == tw

\* term_width as i32 / 2 and term_height as i32
world_width(tw) == tw \div 2
world_height(th) == th

Op(name, c, r) == [op |-> name, col |-> c, row |-> r]

ClearOps == <<Op("Clear", 0, 0)>>
OverlayOps == <<Op("SetFgWhite", 0, 0), Op("MoveTo", 0, 0), Op("TextHelp", 0, 0)>>
EntityOps(c, r) == <<Op("MoveTo", c, r), Op("SetFgRed", 0, 0), Op("TextGlyph", 0, 0)>>

ProperPrefixes(s) == {SubSeq(s, 1, k) : k \in 0..(Len(s) - 1)}

LoopPCs == {"drain", "size", "clear", "overlay", "entity", "flush"}
CleanupPCs == {"cleanup1", "cleanup2", "cleanup3"}
ProcessAlive == mpc \notin {"done", "panicked"}

\* ----------------------------------------------------------------- Init
InitWith(script) ==
    /\ mpc = "setup1"
    /\ result = "none"
    /\ altScreen = FALSE
    /\ rawMode = FALSE
    /\ cursorHidden = FALSE
    /\ cpc = "unspawned"
    /\ buf = "x"
    /\ chan = <<>>
    /\ rxAlive = FALSE
    /\ player_x = 0
    /\ player_y = 0
    /\ term_width = 0
    /\ term_height = 0
    /\ outbuf = <<>>
    /\ stdin = script
    /\ sent = <<>>
    /\ recvd = <<>>
    /\ batch = <<>>
    /\ start_x = 0
    /\ start_y = 0

\* n keystrokes, each any key of ks
AnyOf(ks, n) == [i \in 1..n |-> ks]

Init == InitWith(AnyOf(Keys, MaxKeys))
InitBatch == InitWith(AnyOf(BatchKeys, MaxBatch))
InitFair == InitWith(AnyOf(FairKeys, MaxFair))
\* the typist walks to (2,2) and then presses any keys
InitWalk == InitWith(<<{"d"}, {"d"}, {"s"}, {"s"}>> \o AnyOf(Keys, MaxWalk))

\* ------------------------------------------------------ setup_terminal
\* an .unwrap() on an Err in the main thread ends the process
Panic ==
    /\ mpc' = "panicked"

SetupEnterAlt ==
    /\ mpc = "setup1"
    /\ altScreen' = TRUE
    /\ mpc' = "setup2"
    /\ UNCHANGED <<result, rawMode, cursorHidden, cpc, buf, chan, rxAlive,
                   player_x, player_y, term_width, term_height, outbuf,
                   stdin, sent, recvd, batch, start_x, start_y>>

SetupEnableRaw ==
    /\ mpc = "setup2"
    /\ rawMode' = TRUE
    /\ mpc' = "setup3"
    /\ UNCHANGED <<result, altScreen, cursorHidden, cpc, buf, chan, rxAlive,
                   player_x, player_y, term_width, term_height, outbuf,
                   stdin, sent, recvd, batch, start_x, start_y>>

SetupHideCursor ==
    /\ mpc = "setup3"
    /\ cursorHidden' = TRUE
    /\ mpc' = "spawn"
    /\ UNCHANGED <<result, altScreen, rawMode, cpc, buf, chan, rxAlive,
                   player_x, player_y, term_width, term_height, outbuf,
                   stdin, sent, recvd, batch, start_x, start_y>>

SetupFail ==
    /\ mpc \in {"setup1", "setup2", "setup3"}
    /\ Panic
    /\ UNCHANGED <<result, altScreen, rawMode, cursorHidden, cpc, buf, chan,
                   rxAlive, player_x, player_y, term_width, term_height,
                   outbuf, stdin, sent, recvd, batch, start_x,
                   start_y>>

\* ------------------------------------------------------------ run_game
\* channel::<char>() and std::thread::spawn
RunGameStart ==
    /\ mpc = "spawn"
    /\ rxAlive' = TRUE
    /\ cpc' = "read"
    /\ mpc' = "drain"
    /\ UNCHANGED <<result, termVars, buf, chan, worldVars, frameVars, outbuf,
                   stdin, sent, histVars>>

\* variant: main ends the process on Err instead of discarding it
Return_ExitOnErr(r) ==
    /\ result' = r
    /\ rxAlive' = FALSE
    /\ mpc' = IF r = "Err" THEN "panicked" ELSE "cleanup1"

\* run_game returns r to main: ctrls_receiver is dropped and main goes on
\* to cleanup_terminal
Return(r) ==
    /\ result' = r
    /\ rxAlive' = FALSE
    /\ mpc' = "cleanup1"

\* the capture thread: stdin().read_exact(&mut buf) delivers one byte
CaptureRead ==
    /\ ProcessAlive
    /\ cpc = "read"
    /\ stdin # <<>>
    /\ \E k \in Head(stdin) : buf' = k
    /\ stdin' = Tail(stdin)
    /\ cpc' = "send"
    /\ UNCHANGED <<mpc, result, termVars, chan, rxAlive, worldVars, frameVars,
                   outbuf, sent, histVars>>

\* variant: the failed read ends the whole process
CaptureReadFail_Abort ==
    /\ ProcessAlive
    /\ cpc = "read"
    /\ cpc' = "dead"
    /\ mpc' = "panicked"
    /\ UNCHANGED <<result, termVars, buf, chan, rxAlive, worldVars,
                   frameVars, outbuf, stdin, sent, histVars>>

\* read_exact fails (stdin closed, I/O error): .unwrap() ends the thread
CaptureReadFail ==
    /\ ProcessAlive
    /\ cpc = "read"
    /\ cpc' = "dead"
    /\ UNCHANGED <<mpc, result, termVars, buf, chan, rxAlive, worldVars,
                   frameVars, outbuf, stdin, sent, histVars>>

\* variant: the queue is a stack
Enqueue_Front(q, c) == <<c>> \o q

\* what Sender::send does to the queue
Enqueue(q, c) == Append(q, c)

\* ctrls_sender.send(buf[0] as char) while the receiver exists
CaptureSend ==
    /\ ProcessAlive
    /\ cpc = "send"
    /\ rxAlive
    /\ chan' = Enqueue(chan, buf)
    /\ sent' = Append(sent, buf)
    /\ cpc' = "read"
    /\ UNCHANGED <<mpc, result, termVars, buf, rxAlive, worldVars, frameVars,
                   outbuf, stdin, histVars>>

\* send after the receiver was dropped fails: .unwrap() ends the thread
CaptureSendFail ==
    /\ ProcessAlive
    /\ cpc = "send"
    /\ ~rxAlive
    /\ cpc' = "dead"
    /\ UNCHANGED <<mpc, result, termVars, buf, chan, rxAlive, worldVars,
                   frameVars, outbuf, stdin, sent, histVars>>

\* what try_recv hands out, and what it leaves in the queue
Front(q) == Head(q)
Rest(q) == Tail(q)

\* try_recv() yields Ok(ctrl), ctrl is not 'q': one arm of the match
DrainCtrl ==
    /\ mpc = "drain"
    /\ chan # <<>>
    /\ Front(chan) # "q"
    /\ player_x' = ApplyX(Front(chan), player_x)
    /\ player_y' = ApplyY(Front(chan), player_y)
    /\ chan' = Rest(chan)
    /\ recvd' = Append(recvd, Front(chan))
    /\ batch' = Append(batch, Front(chan))
    /\ UNCHANGED <<mpc, result, termVars, captureVars, rxAlive, frameVars,
                   outbuf, start_x, start_y>>

\* variant: 'q' only sets a flag and the drain goes on
DrainQuit_Deferred ==
    /\ mpc = "drain"
    /\ chan # <<>>
    /\ Front(chan) = "q"
    /\ chan' = Rest(chan)
    /\ recvd' = Append(recvd, Front(chan))
    /\ batch' = Append(batch, Front(chan))
    /\ result' = "Ok"
    /\ UNCHANGED <<mpc, rxAlive, termVars, captureVars, worldVars, frameVars,
                   outbuf, start_x, start_y>>

\* try_recv() yields Ok('q'): return Ok(())
DrainQuit ==
    /\ mpc = "drain"
    /\ chan # <<>>
    /\ Front(chan) = "q"
    /\ chan' = Rest(chan)
    /\ recvd' = Append(recvd, Front(chan))
    /\ batch' = Append(batch, Front(chan))
    /\ Return("Ok")
    /\ UNCHANGED <<termVars, captureVars, worldVars, frameVars, outbuf,
                   start_x, start_y>>

\* variant: recv() instead of try_recv(): Err only when the sender is gone
DrainEnd_Blocking ==
    /\ mpc = "drain"
    /\ chan = <<>>
    /\ cpc = "dead"
    /\ mpc' = "size"
    /\ UNCHANGED <<result, termVars, captureVars, chan, rxAlive, worldVars,
                   frameVars, outbuf, histVars>>

\* variant: Disconnected is taken for a quit
DrainEnd_DisconnectQuits ==
    /\ mpc = "drain"
    /\ chan = <<>>
    /\ IF cpc = "dead"
         THEN Return("Ok")
         ELSE mpc' = "size" /\ UNCHANGED <<result, rxAlive>>
    /\ UNCHANGED <<termVars, captureVars, chan, worldVars, frameVars, outbuf,
                   histVars>>

\* try_recv() yields Err (Empty, or Disconnected when the sender is gone):
\* the while let ends
DrainEnd ==
    /\ mpc = "drain"
    /\ chan = <<>>
    /\ mpc' = "size"
    /\ UNCHANGED <<result, termVars, captureVars, chan, rxAlive, worldVars,
                   frameVars, outbuf, histVars>>

\* terminal::size()? succeeds, then the four ifs
SizeAndClamp ==
    /\ mpc = "size"
    /\ \E vp \in Viewports :
        /\ term_width' = vp[1]
        /\ term_height' = vp[2]
        /\ player_x' = Clamp(player_x, world_width(vp[1]))
        /\ player_y' = Clamp(player_y, world_height(vp[2]))
    /\ mpc' = "clear"
    /\ UNCHANGED <<result, termVars, captureVars, chan, rxAlive, outbuf,
                   histVars>>

\* stdout().queue(terminal::Clear(ClearType::All))?
ClearPhase ==
    /\ mpc = "clear"
    /\ outbuf' = outbuf \o ClearOps
    /\ mpc' = "overlay"
    /\ UNCHANGED <<result, termVars, captureVars, chan, rxAlive, worldVars,
                   frameVars, histVars>>

\* SetForegroundColor(White), MoveTo(0, 0), write(instructions)
OverlayPhase ==
    /\ mpc = "overlay"
    /\ outbuf' = outbuf \o OverlayOps
    /\ mpc' = "entity"
    /\ UNCHANGED <<result, termVars, captureVars, chan, rxAlive, worldVars,
                   frameVars, histVars>>

\* player_x as u16 * 2 and player_y as u16
EntityCol == AsU16(player_x) * 2
EntityRow == AsU16(player_y)

\* MoveTo(player_x as u16 * 2, player_y as u16), SetForegroundColor(Rgb),
\* write("[]"); a u16 product that overflows wraps in a release build
EntityPhase ==
    /\ mpc = "entity"
    /\ outbuf' = outbuf \o EntityOps(EntityCol % U16Range, EntityRow)
    /\ mpc' = "flush"
    /\ UNCHANGED <<result, termVars, captureVars, chan, rxAlive, worldVars,
                   frameVars, histVars>>

\* a u16 product that overflows panics in a debug build
EntityOverflow ==
    /\ mpc = "entity"
    /\ EntityCol >= U16Range
    /\ Panic
    /\ UNCHANGED <<result, termVars, captureVars, chan, rxAlive, worldVars,
                   frameVars, outbuf, histVars>>

\* stdout().flush()? succeeds; the loop starts its next iteration
FlushPhase ==
    /\ mpc = "flush"
    /\ outbuf' = <<>>
    /\ term_width' = 0
    /\ term_height' = 0
    /\ batch' = <<>>
    /\ start_x' = player_x
    /\ start_y' = player_y
    /\ mpc' = "drain"
    /\ UNCHANGED <<result, termVars, captureVars, chan, rxAlive, worldVars,
                   recvd>>

\* the operations a phase queues before one of them can fail
PhaseOps(pc) ==
    CASE pc = "overlay" -> OverlayOps
      [] pc = "entity" -> EntityOps(EntityCol % U16Range, EntityRow)
      [] OTHER -> <<>>

\* variant: the Err is dropped and the loop starts its next iteration
FrameFail_Continue ==
    /\ mpc \in {"size", "clear", "overlay", "entity", "flush"}
    /\ result' = "Err"
    /\ mpc' = "drain"
    /\ UNCHANGED <<termVars, captureVars, chan, rxAlive, worldVars, frameVars,
                   outbuf, histVars>>

\* one of the ? operators of a frame sees an Err: return Err(GameError)
FrameFail ==
    /\ mpc \in {"size", "clear", "overlay", "entity", "flush"}
    /\ \E done \in ProperPrefixes(PhaseOps(mpc)) \cup {<<>>} :
          outbuf' = outbuf \o done
    /\ Return("Err")
    /\ UNCHANGED <<termVars, captureVars, chan, worldVars, frameVars, histVars>>

\* ---------------------------------------------------- cleanup_terminal
CleanupShowCursor ==
    /\ mpc = "cleanup1"
    /\ cursorHidden' = FALSE
    /\ outbuf' = <<>>
    /\ mpc' = "cleanup2"
    /\ UNCHANGED <<result, altScreen, rawMode, captureVars, chan, rxAlive,
                   worldVars, frameVars, histVars>>

\* variant: the second and third cleanup steps are swapped
CleanupDisableRaw_Swapped ==
    /\ mpc = "cleanup2"
    /\ altScreen' = FALSE
    /\ mpc' = "cleanup3"
    /\ UNCHANGED <<result, rawMode, cursorHidden, captureVars, chan,
                   rxAlive, worldVars, frameVars, outbuf, histVars>>

CleanupDisableRaw ==
    /\ mpc = "cleanup2"
    /\ rawMode' = FALSE
    /\ mpc' = "cleanup3"
    /\ UNCHANGED <<result, altScreen, cursorHidden, captureVars, chan,
                   rxAlive, worldVars, frameVars, outbuf, histVars>>

\* main returns after the last step
CleanupLeaveAlt ==
    /\ mpc = "cleanup3"
    /\ altScreen' = FALSE
    /\ mpc' = "done"
    /\ UNCHANGED <<result, rawMode, cursorHidden, captureVars, chan, rxAlive,
                   worldVars, frameVars, outbuf, histVars>>

\* a cleanup step fails: .unwrap() ends the process
CleanupFail ==
    /\ mpc \in CleanupPCs
    /\ Panic
    /\ UNCHANGED <<result, termVars, captureVars, chan, rxAlive, worldVars,
                   frameVars, outbuf, histVars>>

\* ------------------------------------------------------- specification
MainStep ==
    \/ SetupEnterAlt
    \/ SetupEnableRaw
    \/ SetupHideCursor
    \/ SetupFail
    \/ RunGameStart
    \/ DrainCtrl
    \/ DrainQuit
    \/ DrainEnd
    \/ SizeAndClamp
    \/ ClearPhase
    \/ OverlayPhase
    \/ EntityPhase
    \/ EntityOverflow
    \/ FlushPhase
    \/ FrameFail
    \/ CleanupShowCursor
    \/ CleanupDisableRaw
    \/ CleanupLeaveAlt
    \/ CleanupFail

CaptureStep ==
    \/ CaptureRead
    \/ CaptureReadFail
    \/ CaptureSend
    \/ CaptureSendFail

Next == MainStep \/ CaptureStep

Spec == Init /\ [][Next]_vars

SpecBatch == InitBatch /\ [][Next]_vars

SpecWalk == InitWalk /\ [][Next]_vars

\* the scheduler keeps running the main thread, which never waits
SpecFair == InitFair /\ [][Next]_vars /\ WF_vars(MainStep)

\* ============================================================== claims
Restored == ~cursorHidden /\ ~rawMode /\ ~altScreen
AfterClampPCs == {"clear", "overlay", "entity", "flush"}

\* C1: when run_game returns, with Ok or with Err, main goes on to
\* cleanup_terminal, and a process that ends after all three cleanup steps
\* succeeded has the cursor shown, raw mode off and the alternate screen left
C1_CleanupSymmetry ==
    /\ [][(result = "none" /\ result' # "none") =>
            (mpc' = "cleanup1" /\ cursorHidden /\ rawMode /\ altScreen)]_vars
    /\ [](mpc = "done" => (result # "none" /\ Restored))

C1_Witness == mpc = "done" /\ result = "Err" /\ Restored

\* C2: whenever the process has ended, every terminal property it toggled
\* is restored
C2_NoLeak == (~ProcessAlive) => Restored

\* C3: a failing cleanup step does not stop the cleanup: from every cleanup
\* step the main thread goes on to the next step or to the end of main
C3_BestEffort ==
    [][(mpc \in CleanupPCs /\ mpc' # mpc) => mpc' \in CleanupPCs \cup {"done"}]_vars

\* C4 (amended): the properties are acquired alternate screen, raw mode,
\* hidden cursor and released in the reverse order, so the properties held
\* are always a prefix of that list; the render loop runs only while all
\* three are held; the capture thread is started only while all three are
\* held
C4_StackDiscipline ==
    /\ [](cursorHidden => rawMode)
    /\ [](rawMode => altScreen)
    /\ [](mpc \in LoopPCs => (cursorHidden /\ rawMode /\ altScreen))
    /\ [][(cpc = "unspawned" /\ cpc' # "unspawned") =>
            (cursorHidden /\ rawMode /\ altScreen)]_vars

\* the cleanup has undone the cursor and raw mode, not yet the alternate
\* screen, after a render loop that ran
C4_Witness ==
    mpc = "cleanup3" /\ altScreen /\ ~rawMode /\ ~cursorHidden /\ recvd # <<>>

\* C4 as claimed: the same, and every step of the capture thread is taken
\* while the main thread is in the render loop
C4_Original ==
    /\ C4_StackDiscipline
    /\ [][(cpc # "unspawned" /\ cpc' # cpc) => mpc \in LoopPCs]_vars

\* C5: after the clamp of a frame that read a viewport with w, h >= 2,
\* 0 <= x < w/2 and 0 <= y < h
C5_ClampInvariant ==
    (mpc \in AfterClampPCs /\ term_width >= 2 /\ term_height >= 2) =>
        /\ 0 <= player_x /\ player_x < term_width \div 2
        /\ 0 <= player_y /\ player_y < term_height

\* the viewport shrank since the last frame and the clamp pulled x back
C5_Witness ==
    /\ mpc = "clear"
    /\ term_width = 3 /\ term_height = 2
    /\ start_x = 2 /\ batch = <<"s">>
    /\ player_x = 0 /\ player_y = 1

RECURSIVE Count(_, _)
Count(s, c) ==
    IF s = <<>> THEN 0
    ELSE (IF Head(s) = c THEN 1 ELSE 0) + Count(Tail(s), c)

NetX(s) == Count(s, "d") - Count(s, "a")
NetY(s) == Count(s, "s") - Count(s, "w")

\* C6: once a 'q' is drained nothing is applied to the position and nothing
\* more is dequeued; the quit frame applied only the events in front of the
\* 'q', read no viewport and queued no output; the loop is never re-entered
C6_QuitFinal ==
    /\ [](result = "Ok" =>
            /\ mpc \notin LoopPCs
            /\ outbuf = <<>>
            /\ term_width = 0 /\ term_height = 0
            /\ batch # <<>> /\ batch[Len(batch)] = "q"
            /\ Count(recvd, "q") = 1
            /\ player_x = start_x + NetX(batch)
            /\ player_y = start_y + NetY(batch))
    /\ [][result = "Ok" =>
            (player_x' = player_x /\ player_y' = player_y /\ recvd' = recvd
             /\ chan' = chan /\ result' = "Ok")]_vars

\* batch d, q, d from (0,0): x = 1, y = 0, the trailing d still queued
C6_Witness ==
    /\ result = "Ok"
    /\ start_x = 0 /\ start_y = 0
    /\ batch = <<"d", "q">>
    /\ chan = <<"d">>
    /\ player_x = 1 /\ player_y = 0
    /\ mpc = "done"

\* C7: what the render loop has dequeued, followed by what is queued, is
\* what the capture thread has sent
C7_Fifo == sent = recvd \o chan

\* three different events sent, two dequeued in two different frames
C7_Witness ==
    /\ Len(sent) = 3 /\ Len(recvd) = 2 /\ Len(batch) = 1
    /\ sent[1] # sent[2] /\ sent[2] # sent[3] /\ sent[1] # sent[3]

\* C8: the main thread can always take a step while it is in the loop; the
\* drain of an empty channel ends at once; and every frame that is begun
\* is completed unless the loop returns or the process ends
C8_NeverBlocks ==
    /\ [](mpc \in LoopPCs => ENABLED MainStep)
    /\ [][(mpc = "drain" /\ chan = <<>> /\ mpc' # mpc) => mpc' = "size"]_vars
    /\ [](mpc = "drain" => <>(mpc = "size" \/ result # "none"))
    /\ [](mpc = "size" =>
            <>((mpc = "drain" /\ batch = <<>>) \/ result # "none" \/ ~ProcessAlive))

\* a frame that drained nothing is about to be flushed while the capture
\* thread waits for a byte that never comes
C8_Witness ==
    /\ mpc = "flush" /\ batch = <<>>
    /\ cpc = "read" /\ stdin = <<>> /\ chan = <<>>
    /\ Len(recvd) = MaxFair

\* C9: during the drain the position is the frame's start position plus the
\* net movement of the events drained so far, and after the clamp it is the
\* clamp of that sum
C9_SingleClamp ==
    /\ mpc = "drain" =>
        /\ player_x = start_x + NetX(batch)
        /\ player_y = start_y + NetY(batch)
    /\ mpc \in AfterClampPCs =>
        /\ player_x = Clamp(start_x + NetX(batch), term_width \div 2)
        /\ player_y = Clamp(start_y + NetY(batch), term_height)

\* viewport (10,5), start (0,0), six d in one batch: x = 4, y = 0
C9_Witness ==
    /\ mpc = "clear"
    /\ term_width = 10 /\ term_height = 5
    /\ start_x = 0 /\ start_y = 0
    /\ batch = <<"d", "d", "d", "d", "d", "d">>
    /\ player_x = 4 /\ player_y = 0

OnlyUnmapped(s) == \A i \in 1..Len(s) : s[i] \notin {"w", "a", "s", "d", "q"}

\* C10: draining an unmapped character changes neither x nor y, keeps the
\* loop draining and returns nothing; a frame that drained only unmapped
\* characters from a position inside the world bounds queues the glyph at
\* that position
C10_UnmappedNoop ==
    /\ [][(mpc = "drain" /\ chan # <<>> /\ recvd' # recvd
             /\ OnlyUnmapped(<<Head(chan)>>)) =>
            (player_x' = player_x /\ player_y' = player_y
             /\ mpc' = "drain" /\ result' = "none")]_vars
    /\ [](( /\ mpc = "flush"
            /\ batch # <<>> /\ OnlyUnmapped(batch)
            /\ 0 <= start_x /\ start_x < term_width \div 2
            /\ 0 <= start_y /\ start_y < term_height) =>
           ( /\ player_x = start_x /\ player_y = start_y
             /\ outbuf = ClearOps \o OverlayOps
                           \o EntityOps(2 * start_x, start_y)))

\* from (2,2), event x: still (2,2), glyph queued at column 4, row 2
C10_Witness ==
    /\ mpc = "flush"
    /\ batch = <<"x">>
    /\ start_x = 2 /\ start_y = 2
    /\ player_x = 2 /\ player_y = 2
    /\ outbuf[5] = Op("MoveTo", 4, 2)

FramePCs == {"size", "clear", "overlay", "entity", "flush"}

\* C11: an Err of the size query, the clear, the overlay, the entity write
\* or the flush makes run_game return Err at once: main goes on to cleanup,
\* the loop is never re-entered, nothing more is dequeued or applied and no
\* later phase queues anything
C11_FrameFailAborts ==
    /\ [][(result = "none" /\ result' = "Err") =>
            (mpc \in FramePCs /\ mpc' = "cleanup1" /\ recvd' = recvd
             /\ chan' = chan /\ player_x' = player_x /\ player_y' = player_y)]_vars
    /\ [](result = "Err" => mpc \notin LoopPCs)
    /\ [][result = "Err" =>
            (result' = "Err" /\ recvd' = recvd /\ chan' = chan
             /\ player_x' = player_x /\ player_y' = player_y
             /\ outbuf' \in {outbuf, <<>>})]_vars

\* a phase after the size query failed with an event still in the channel;
\* cleanup has run to its last step
C11_Witness ==
    /\ result = "Err"
    /\ mpc = "cleanup3"
    /\ chan # <<>>
    /\ recvd # <<>>
    /\ term_width = 10

\* C12: the step in which the capture thread dies changes nothing of the
\* main thread, the position, the channel or the terminal; a dead thread
\* sends nothing more; the loop can still take its steps, drains what is
\* queued and completes its frames unless it returns or the process ends
C12_CaptureFailureIsLocal ==
    /\ [][(cpc # "dead" /\ cpc' = "dead") =>
            (mpc' = mpc /\ result' = result /\ chan' = chan
             /\ recvd' = recvd /\ player_x' = player_x /\ player_y' = player_y
             /\ outbuf' = outbuf /\ altScreen' = altScreen
             /\ rawMode' = rawMode /\ cursorHidden' = cursorHidden)]_vars
    /\ [][cpc = "dead" => (cpc' = "dead" /\ sent' = sent)]_vars
    /\ []((cpc = "dead" /\ mpc \in LoopPCs) => ENABLED MainStep)
    /\ []((cpc = "dead" /\ sent = recvd \o chan) => [](sent = recvd \o chan))
    /\ []((cpc = "dead" /\ mpc \in LoopPCs /\ chan # <<>>) =>
            <>(chan = <<>> \/ result # "none" \/ ~ProcessAlive))
    /\ []((cpc = "dead" /\ mpc = "size") =>
            <>((mpc = "drain" /\ batch = <<>>) \/ result # "none" \/ ~ProcessAlive))

\* the thread died on a read with one event still queued, and the loop is
\* in the middle of a drain
C12_Witness ==
    /\ cpc = "dead"
    /\ mpc = "drain" /\ result = "none"
    /\ Len(batch) = 1 /\ Len(chan) = 1
    /\ stdin = <<>>

\* the position main leaves each position of the loop for
NextPhase(pc) ==
    CASE pc = "drain" -> "size"
      [] pc = "size" -> "clear"
      [] pc = "clear" -> "overlay"
      [] pc = "overlay" -> "entity"
      [] pc = "entity" -> "flush"
      [] pc = "flush" -> "drain"

\* C13: a frame goes through drain, size and clamp, clear, overlay, entity,
\* flush in that order and leaves that order only by returning; nothing is
\* queued before the clear and the flush empties the queue; when the flush
\* is due the queue holds the clear, the overlay at (0,0) and the glyph at
\* (x*2, y) for the x, y the clamp of this frame produced
C13_PhaseOrder ==
    /\ [][(mpc \in LoopPCs /\ mpc' # mpc) =>
            (mpc' = NextPhase(mpc) \/ result' # "none")]_vars
    /\ [](mpc \in {"drain", "size", "clear"} => outbuf = <<>>)
    /\ [](mpc = "overlay" => outbuf = ClearOps)
    /\ [](mpc = "entity" => outbuf = ClearOps \o OverlayOps)
    /\ [](mpc = "flush" =>
            /\ player_x = Clamp(start_x + NetX(batch), term_width \div 2)
            /\ player_y = Clamp(start_y + NetY(batch), term_height)
            /\ outbuf = ClearOps \o OverlayOps
                          \o <<Op("MoveTo", player_x * 2, player_y),
                               Op("SetFgRed", 0, 0), Op("TextGlyph", 0, 0)>>)

\* C14: after the clamp of a frame, whatever viewport it read,
\* 0 <= x < w/2 and 0 <= y < h, so x and y are their own u16 values and
\* x*2 fits 16 bits
C14_WorldBounds ==
    mpc \in AfterClampPCs =>
        /\ 0 <= player_x /\ player_x < term_width \div 2
        /\ 0 <= player_y /\ player_y < term_height
        /\ player_x % 65536 = player_x
        /\ player_y % 65536 = player_y
        /\ player_x * 2 < 65536

\* a terminal operation failed somewhere: a frame returned Err, or a
\* cleanup step panicked
SurfaceFailed == result = "Err" \/ (mpc = "panicked" /\ result # "none")

\* C15: a process that has ended after a 'q' was sent, with no terminal
\* operation failed, ended by draining the 'q' and running all of cleanup
\* (a process that ends any other way never drains the 'q')
C15_QuitLiveness ==
    ((~ProcessAlive) /\ Count(sent, "q") >= 1 /\ ~SurfaceFailed) =>
        (result = "Ok" /\ mpc = "done" /\ Restored)

\* C16: run_game has returned Ok exactly when a 'q' was dequeued; the step
\* that returns Ok dequeues a 'q'; the step that returns Err is a failing
\* frame phase; every other step of the drain stays in the loop
C16_OnlyQuitEndsLoop ==
    /\ [](result = "Ok" <=> Count(recvd, "q") >= 1)
    /\ [][(result = "none" /\ result' = "Ok") =>
            (mpc = "drain" /\ chan # <<>> /\ Head(chan) = "q"
             /\ recvd' = Append(recvd, "q"))]_vars
    /\ [][(result = "none" /\ result' = "Err") => mpc \in FramePCs]_vars
    /\ [][(mpc = "drain" /\ mpc' # mpc /\ ~(chan # <<>> /\ Head(chan) = "q")) =>
            (mpc' = "size" /\ result' = "none")]_vars

\* the sender is gone, the channel is drained of a directional and an
\* unmapped event, and the loop has gone on to the next phase
C16_Witness ==
    /\ cpc = "dead" /\ chan = <<>>
    /\ batch = <<"d", "x">>
    /\ mpc = "size" /\ result = "none"

\* C17: with viewport (10,5) and the frame starting at (0,0), the events
\* a, d drained in one frame leave x = 0, and the same two events drained
\* in two consecutive frames leave x = 1
C17_SplitMatters ==
    /\ ( /\ mpc \in AfterClampPCs
         /\ term_width = 10 /\ term_height = 5
         /\ recvd = <<"a", "d">> /\ batch = <<"a", "d">>
         /\ start_x = 0 /\ start_y = 0 ) => (player_x = 0 /\ player_y = 0)
    /\ ( /\ mpc \in AfterClampPCs
         /\ term_width = 10 /\ term_height = 5
         /\ recvd = <<"a", "d">> /\ batch = <<"d">>
         /\ start_x = 0 /\ start_y = 0 ) => (player_x = 1 /\ player_y = 0)

\* a, d drained in two frames: x = 1
C17_Witness ==
    /\ mpc = "clear"
    /\ term_width = 10 /\ term_height = 5
    /\ recvd = <<"a", "d">> /\ batch = <<"d">>
    /\ start_x = 0 /\ start_y = 0
    /\ player_x = 1 /\ player_y = 0

\* the capture thread is dead and no 'q' is queued
NoQuitLeft == cpc = "dead" /\ Count(chan, "q") = 0

\* C18: once the capture thread is dead with no 'q' queued, run_game never
\* returns Ok, and the loop is left only by a failing terminal operation
C18_NoQuitAfterCaptureDeath ==
    /\ [][(NoQuitLeft /\ result # "Ok") => (NoQuitLeft /\ result # "Ok")']_vars
    /\ [][(NoQuitLeft /\ mpc \in LoopPCs) =>
            (mpc' \in LoopPCs \/ result' = "Err")]_vars

\* C19: for a viewport with w >= 2 and h >= 1, the cursor move queued for
\* the glyph has column c and row r with 0 <= c, c + 1 <= w - 1 and
\* 0 <= r <= h - 1
C19_GlyphInside ==
    (mpc = "flush" /\ term_width >= 2 /\ term_height >= 1) =>
        /\ Len(outbuf) = 7
        /\ outbuf[5].op = "MoveTo"
        /\ 0 <= outbuf[5].col
        /\ outbuf[5].col + 1 <= term_width - 1
        /\ 0 <= outbuf[5].row
        /\ outbuf[5].row <= term_height - 1

\* viewport (10,5), player at (4,2): the glyph fills columns 8 and 9
C19_Witness ==
    /\ mpc = "flush"
    /\ term_width = 10 /\ term_height = 5
    /\ player_x = 4 /\ player_y = 2
    /\ outbuf[5] = Op("MoveTo", 8, 2)

====
